---- MODULE Spec2Model ----
(***************************************************************************)
(* A model of unmkbootimg (src/src/unmkbootimg.c): the run of main() on a  *)
(* boot image file, the header validation, the slice geometry in 32-bit    *)
(* unsigned arithmetic, the block-wise slice copy and the image-id         *)
(* formatter.                                                              *)
(*                                                                         *)
(* A uint32_t is the pair <<hi, lo>> of its 16-bit halves, so that the     *)
(* arithmetic keeps its 32-bit width.                                      *)
(***************************************************************************)
EXTENDS Integers, Sequences, FiniteSets, TLC

VARIABLES
    pc,               \* the statement of main() (or of a callee) that runs next
    verbose,          \* -v
    onlyPrintHeader,  \* -i
    srcHdrLen,        \* the source file: how many bytes of the header region it holds
    srcBody,          \* the source file: the bytes that follow the header region
    fileHdr,          \* the source file: what its header region decodes to
    srcOpen,          \* srcFile is open
    srcPos,           \* srcFile's file position
    header,           \* main's boot_img_hdr header (the fields the run reads)
    sizeMap,          \* main's sizeMap[4]
    offsetMap,        \* main's offsetMap[4]
    dest,             \* main's loop variable dest
    files,            \* the destination files on disk
    openDests,        \* the destinations that are open
    openLog,          \* the destinations in the order they were opened
    destPos,          \* destFile's file position
    blockSize,        \* writeSlice's parameters and locals
    byteOffset,
    byteCount,
    i,
    buffer,
    seekFailed,       \* the fseek of this writeSlice call failed
    ioFault,          \* some I/O or allocation call of this writeSlice call failed
    fatal,            \* throwError has run
    exitStatus,       \* "running", "success", "failure" or "crashed"
    warned,           \* throwWarning has run
    stderr,           \* the last diagnostic printed to stderr
    imageId           \* getImageId's output string (a sequence of characters)

fileV == <<srcHdrLen, srcBody, fileHdr>>
argV == <<verbose, onlyPrintHeader>>
geomV == <<sizeMap, offsetMap>>
wsV == <<blockSize, byteOffset, byteCount, i, buffer, destPos, seekFailed, ioFault>>
procV == <<pc, fatal, exitStatus, stderr, srcOpen, openDests>>
vars == <<pc, verbose, onlyPrintHeader, srcHdrLen, srcBody, fileHdr, srcOpen,
          srcPos, header, sizeMap, offsetMap, dest, files, openDests, openLog,
          destPos, blockSize, byteOffset, byteCount, i, buffer, seekFailed,
          ioFault, fatal, exitStatus, warned, stderr, imageId>>

(***************************************************************************)
(* Program constants.                                                      *)
(***************************************************************************)
\* sizeof(boot_img_hdr): magic[8], ten uint32_t, name[16], cmdline[512],
\* id[8] (uint32_t), extra_cmdline[1024].
HeaderSize == 1632
\* BOOT_ID_SIZE: sizeof(uint32_t) * 8.
BOOT_ID_SIZE == 32
\* IMAGE_ID_SIZE: BOOT_ID_SIZE * 3 + 1.
IMAGE_ID_SIZE == 97
\* The first byte of id that is outside a SHA-1 digest.
SHA1_SIZE == 20
BOOT_MAGIC_SIZE == 8
\* "ANDROID!" as character codes.
BOOT_MAGIC == <<65, 78, 68, 82, 79, 73, 68, 33>>

SLICE_HEADER == 0
SLICE_KERNEL == 1
SLICE_RAMDISK == 2
SLICE_SECOND == 3
DEST_MKSCRIPT == 0
DEST_KERNEL == 1
DEST_RAMDISK == 2
DEST_SECOND == 3

\* The offsets at which the fields of boot_img_hdr end.
MagicEnd == 8
KernelSizeEnd == 12
RamdiskSizeEnd == 20
SecondSizeEnd == 28
PageSizeEnd == 40

(***************************************************************************)
(* uint32_t arithmetic on <<hi, lo>>.                                      *)
(***************************************************************************)
Half == 65536

FromNat(n) == <<(n \div Half) % Half, n % Half>>

\* The conversion of a uint32_t to size_t (for the values below 2^31).
ToSize(u) == u[1] * Half + u[2]

U32Zero == <<0, 0>>

U32Add(a, b) ==
    LET lo == a[2] + b[2]
        hi == a[1] + b[1] + (lo \div Half)
    IN  <<hi % Half, lo % Half>>

U32Sub(a, b) ==
    LET lo == a[2] - b[2]
        borrow == IF lo < 0 THEN 1 ELSE 0
        hi == a[1] - b[1] - borrow
    IN  <<(hi + Half) % Half, (lo + Half) % Half>>

\* a / p for a divisor p that fits 15 bits (long division on the two halves).
U32Div(a, p) ==
    LET qhi == a[1] \div p
        r == a[1] % p
        low == r * Half + a[2]
    IN  <<qhi, low \div p>>

U32Mod(a, p) == ((a[1] % p) * Half + a[2]) % p

\* a * p, truncated to 32 bits, for a factor p that fits 15 bits.
U32Mul(a, p) ==
    LET lo == a[2] * p
        hi == a[1] * p + (lo \div Half)
    IN  <<hi % Half, lo % Half>>

U32Leq(a, b) == a[1] < b[1] \/ (a[1] = b[1] /\ a[2] <= b[2])

(***************************************************************************)
(* The geometry: getSizeMap and getOffsetMap.                              *)
(***************************************************************************)
getSizeMap(h) ==
    [slice \in 0..3 |->
        CASE slice = SLICE_HEADER -> FromNat(HeaderSize)
          [] slice = SLICE_KERNEL -> h.kernel_size
          [] slice = SLICE_RAMDISK -> h.ramdisk_size
          [] slice = SLICE_SECOND -> h.second_size
          [] OTHER -> U32Zero]

\* ((currSliceSize + pageSize - 1) / pageSize) * pageSize, in uint32_t.
RoundUpToPage(currSliceSize, pageSize) ==
    U32Mul(U32Div(U32Sub(U32Add(currSliceSize, FromNat(pageSize)), FromNat(1)),
                  pageSize),
           pageSize)

\* What the division by pageSize = 0 leaves when it does not trap: the
\* quotient 0 (the result of the ARM udiv instruction).
RoundUpToPageZero(currSliceSize) == U32Zero

RECURSIVE OffsetLoop(_, _, _, _)
OffsetLoop(map, sizes, pageSize, slice) ==
    IF slice < 3
    THEN LET currSliceSize ==
                 IF pageSize = 0 THEN RoundUpToPageZero(sizes[slice])
                 ELSE RoundUpToPage(sizes[slice], pageSize)
         IN  OffsetLoop([map EXCEPT ![slice + 1] = U32Add(map[slice], currSliceSize)],
                        sizes, pageSize, slice + 1)
    ELSE map

getOffsetMap(h) ==
    OffsetLoop([s \in 0..3 |-> U32Zero], getSizeMap(h), ToSize(h.page_size), 0)

(***************************************************************************)
(* The header validation's string comparison.                              *)
(***************************************************************************)
\* strncmp(a, b, n) != 0 on arrays of character codes (0 is NUL), indexed
\* from 1: the first n characters differ before a common NUL ends both.
RECURSIVE StrncmpDiffers(_, _, _, _)
StrncmpDiffers(a, b, n, k) ==
    IF k > n THEN FALSE
    ELSE IF a[k] # b[k] THEN TRUE
    ELSE IF a[k] = 0 THEN FALSE
    ELSE StrncmpDiffers(a, b, n, k + 1)

\* A variant: the comparison stops one character early.
MagicDiffers7(magic) == StrncmpDiffers(magic, BOOT_MAGIC, BOOT_MAGIC_SIZE - 1, 1)

MagicDiffers(magic) == StrncmpDiffers(magic, BOOT_MAGIC, BOOT_MAGIC_SIZE, 1)

(***************************************************************************)
(* getImageId.  id is the 32 bytes of header->id, indexed from 0; the      *)
(* output is the string in imageId, a sequence of characters.              *)
(***************************************************************************)
HexDigit == <<"0", "1", "2", "3", "4", "5", "6", "7",
              "8", "9", "a", "b", "c", "d", "e", "f">>

\* printf's %02x of a byte.
Hex02(b) == <<HexDigit[(b \div 16) + 1], HexDigit[(b % 16) + 1]>>

Sha1Marker == <<" ", "(", "s", "h", "a", "1", ")">>

\* snprintf(buf + j, size, text): at most size - 1 characters and a NUL.
Snprintf(buf, j, size, text) ==
    SubSeq(buf, 1, j) \o
    SubSeq(text, 1, IF Len(text) < size - 1 THEN Len(text) ELSE size - 1)

\* A variant: the scan starts one byte late.
IsSha1From21(id) == \A k \in (SHA1_SIZE + 1)..(BOOT_ID_SIZE - 1) : ~(id[k] > 0)

\* for(i = 20; i < BOOT_ID_SIZE; i++) if(id[i] > 0) isSha1 = false;
IsSha1(id) == \A k \in SHA1_SIZE..(BOOT_ID_SIZE - 1) : ~(id[k] > 0)

Separator(isSha1, k) ==
    IF isSha1 THEN <<>>
    ELSE IF k = BOOT_ID_SIZE - 1 THEN <<>>
    ELSE IF (k + 1) % 4 = 0 THEN <<" ">>
    ELSE <<":">>

RECURSIVE ImageIdLoop(_, _, _, _, _)
ImageIdLoop(buf, id, isSha1, k, j) ==
    IF k < BOOT_ID_SIZE /\ j < IMAGE_ID_SIZE - 1
    THEN IF isSha1 /\ k >= SHA1_SIZE
         THEN Snprintf(buf, j, IMAGE_ID_SIZE - j, Sha1Marker)
         ELSE LET text == Hex02(id[k]) \o Separator(isSha1, k)
              IN  ImageIdLoop(Snprintf(buf, j, IMAGE_ID_SIZE - j, text),
                              id, isSha1, k + 1, j + Len(text))
    ELSE buf

getImageId(id) == ImageIdLoop(<<>>, id, IsSha1(id), 0, 0)

(***************************************************************************)
(* The files.                                                              *)
(***************************************************************************)
constV == <<srcHdrLen, srcBody, fileHdr, verbose, onlyPrintHeader>>

SrcLen == srcHdrLen + Len(srcBody)

\* The byte at position p of the source (the bytes of the header region are
\* not kept one by one and read as 0).
ByteAt(p) == IF p < srcHdrLen THEN 0 ELSE srcBody[p - srcHdrLen + 1]

ReadBytes(pos, n) == [k \in 1..n |-> ByteAt(pos + k - 1)]

\* A file's bytes after `bytes` are written at position pos (pos <= Len(data)).
WriteAt(data, pos, bytes) ==
    LET end == pos + Len(bytes)
        len == IF Len(data) > end THEN Len(data) ELSE end
    IN  [k \in 1..len |-> IF k > pos /\ k <= end THEN bytes[k - pos] ELSE data[k]]

NoFile == [exists |-> FALSE, data |-> <<>>, exec |-> FALSE]
\* fopen(path, "w"): the file is created, or truncated.
NewFile == [exists |-> TRUE, data |-> <<>>, exec |-> FALSE]

(***************************************************************************)
(* throwError: the message, then exit(EXIT_FAILURE).  The exit closes      *)
(* every open stream.                                                      *)
(***************************************************************************)
\* A variant: the message, and no exit.
throwErrorNoExit(message) ==
    /\ fatal' = TRUE
    /\ stderr' = message
    /\ UNCHANGED <<exitStatus, pc, srcOpen, openDests>>

throwError(message) ==
    /\ fatal' = TRUE
    /\ stderr' = message
    /\ exitStatus' = "failure"
    /\ pc' = "exited"
    /\ srcOpen' = FALSE
    /\ openDests' = {}

\* throwWarning: the message, and the run goes on.
throwWarning(message) ==
    /\ warned' = TRUE
    /\ stderr' = message

\* An integer division by zero that traps (SIGFPE): the process dies.
Crash ==
    /\ fatal' = fatal
    /\ stderr' = stderr
    /\ exitStatus' = "crashed"
    /\ pc' = "exited"
    /\ srcOpen' = FALSE
    /\ openDests' = {}

(***************************************************************************)
(* main, up to the extraction loop.                                        *)
(***************************************************************************)
\* srcFile = openFile(src, "r");
OpenSrc ==
    /\ pc = "openSrc"
    /\ \/ /\ srcOpen' = TRUE
          /\ srcPos' = 0
          /\ pc' = "changeDir"
          /\ UNCHANGED <<fatal, exitStatus, stderr, openDests>>
       \/ /\ throwError("Failed to open")
          /\ UNCHANGED srcPos
    /\ UNCHANGED <<constV, geomV, wsV, header, dest, files, openLog, warned, imageId>>

\* changeDir(destDir);
ChangeDir ==
    /\ pc = "changeDir"
    /\ \/ /\ pc' = "readHeader"
          /\ UNCHANGED <<fatal, exitStatus, stderr, srcOpen, openDests>>
       \/ throwError("Failed to open directory")
    /\ UNCHANGED <<constV, geomV, wsV, header, srcPos, dest, files, openLog, warned,
                   imageId>>

\* What an uninitialised field of main's header may hold.
GarbageMagic == {BOOT_MAGIC, [k \in 1..BOOT_MAGIC_SIZE |-> 0]}
GarbageU32 == {U32Zero, FromNat(1)}

\* fread(header, sizeof(boot_img_hdr), 1, srcFile) at position 0: a field
\* that the file holds whole is read, the others keep what the buffer held.
FreadHeader ==
    {h \in [magic : {fileHdr.magic} \cup GarbageMagic,
            kernel_size : {fileHdr.kernel_size} \cup GarbageU32,
            ramdisk_size : {fileHdr.ramdisk_size} \cup GarbageU32,
            second_size : {fileHdr.second_size} \cup GarbageU32,
            page_size : {fileHdr.page_size} \cup GarbageU32,
            id : {fileHdr.id}] :
        /\ srcHdrLen >= MagicEnd => h.magic = fileHdr.magic
        /\ srcHdrLen >= KernelSizeEnd => h.kernel_size = fileHdr.kernel_size
        /\ srcHdrLen >= RamdiskSizeEnd => h.ramdisk_size = fileHdr.ramdisk_size
        /\ srcHdrLen >= SecondSizeEnd => h.second_size = fileHdr.second_size
        /\ srcHdrLen >= PageSizeEnd => h.page_size = fileHdr.page_size}

\* readHeader's three checks.
HeaderRejected(h) ==
    \/ MagicDiffers(h.magic)
    \/ h.kernel_size = U32Zero
    \/ h.ramdisk_size = U32Zero

\* The message of the first check that fails.
RejectMessage(h) ==
    IF MagicDiffers(h.magic) THEN "Invalid magic number at start of header"
    ELSE IF h.kernel_size = U32Zero THEN "Invalid kernel_size"
    ELSE "Invalid ramdisk_size"

\* readHeader(&header, srcFile);
ReadHeader ==
    /\ pc = "readHeader"
    /\ \/ \* rewind left errno set
          /\ throwError("Failed to rewind to start")
          /\ UNCHANGED <<header, srcPos>>
       \/ \* fread left errno set
          /\ throwError("Failed to read header")
          /\ UNCHANGED <<header, srcPos>>
       \/ \E h \in FreadHeader :
             /\ header' = h
             /\ srcPos' = (IF SrcLen < HeaderSize THEN SrcLen ELSE HeaderSize)
             /\ IF HeaderRejected(h)
                THEN throwError(RejectMessage(h))
                ELSE /\ pc' = "getSizeMap"
                     /\ UNCHANGED <<fatal, exitStatus, stderr, srcOpen, openDests>>
    /\ UNCHANGED <<constV, geomV, wsV, dest, files, openLog, warned, imageId>>

\* getSizeMap(sizeMap, &header);
GetSizeMap ==
    /\ pc = "getSizeMap"
    /\ sizeMap' = getSizeMap(header)
    /\ pc' = "getOffsetMap"
    /\ UNCHANGED <<constV, wsV, header, offsetMap, srcPos, dest, files, openLog, warned,
                   imageId, fatal, exitStatus, stderr, srcOpen, openDests>>

\* getOffsetMap(offsetMap, &header);  The division by pageSize = 0 is
\* undefined: it traps, or it leaves the quotient 0.
GetOffsetMap ==
    /\ pc = "getOffsetMap"
    /\ \/ /\ header.page_size # U32Zero
          /\ offsetMap' = getOffsetMap(header)
          /\ pc' = "writeHeaderInfo"
          /\ UNCHANGED <<fatal, exitStatus, stderr, srcOpen, openDests>>
       \/ /\ header.page_size = U32Zero
          /\ Crash
          /\ UNCHANGED offsetMap
       \/ /\ header.page_size = U32Zero
          /\ offsetMap' = getOffsetMap(header)
          /\ pc' = "writeHeaderInfo"
          /\ UNCHANGED <<fatal, exitStatus, stderr, srcOpen, openDests>>
    /\ UNCHANGED <<constV, wsV, header, sizeMap, srcPos, dest, files, openLog, warned,
                   imageId>>

\* if(verbose || onlyPrintHeader) writeHeaderInfo(stdout, &header);
WriteHeaderInfo ==
    /\ pc = "writeHeaderInfo"
    /\ \/ /\ verbose \/ onlyPrintHeader
          /\ imageId' = getImageId(header.id)
       \/ /\ ~(verbose \/ onlyPrintHeader)
          /\ UNCHANGED imageId
    /\ dest' = 0
    /\ pc' = "loop"
    /\ UNCHANGED <<constV, geomV, wsV, header, srcPos, files, openLog, warned,
                   fatal, exitStatus, stderr, srcOpen, openDests>>

(***************************************************************************)
(* main's extraction loop.                                                 *)
(***************************************************************************)
\* The loop ends: onlyPrintHeader, or dest > SLICE_SECOND.
LoopDone ==
    /\ pc = "loop"
    /\ onlyPrintHeader \/ dest > SLICE_SECOND
    /\ pc' = "cleanup"
    /\ UNCHANGED <<constV, geomV, wsV, header, srcPos, dest, files, openLog, warned,
                   imageId, fatal, exitStatus, stderr, srcOpen, openDests>>

\* if(sizeMap[dest] == 0) continue;
LoopSkip ==
    /\ pc = "loop"
    /\ ~onlyPrintHeader /\ dest <= SLICE_SECOND
    /\ sizeMap[dest] = U32Zero
    /\ dest' = dest + 1
    /\ UNCHANGED <<constV, geomV, wsV, header, srcPos, files, openLog, warned,
                   imageId, procV>>

\* destFile = openFile(dests[dest], "w"); and the call the switch makes: for
\* a slice, writeSlice(srcFile, destFile, header.page_size, offsetMap[dest],
\* sizeMap[dest]).
LoopOpen ==
    /\ pc = "loop"
    /\ ~onlyPrintHeader /\ dest <= SLICE_SECOND
    /\ sizeMap[dest] # U32Zero
    /\ \/ /\ files' = [files EXCEPT ![dest] = NewFile]
          /\ openDests' = openDests \cup {dest}
          /\ openLog' = Append(openLog, dest)
          /\ destPos' = 0
          /\ IF dest = DEST_MKSCRIPT
             THEN /\ pc' = "writeMakeScript"
                  /\ UNCHANGED <<blockSize, byteOffset, byteCount>>
             ELSE /\ pc' = "ws_alloc"
                  /\ blockSize' = ToSize(header.page_size)
                  /\ byteOffset' = ToSize(offsetMap[dest])
                  /\ byteCount' = ToSize(sizeMap[dest])
          /\ seekFailed' = FALSE
          /\ ioFault' = FALSE
          /\ UNCHANGED <<fatal, exitStatus, stderr, srcOpen, i, buffer>>
       \/ /\ throwError("Failed to open")
          /\ UNCHANGED <<files, openLog, wsV>>
    /\ UNCHANGED <<constV, geomV, header, srcPos, dest, warned, imageId>>

\* A variant: "--second" whatever second_size is.
ScriptFlagsAlways(h) ==
    <<"--kernel", "--ramdisk", "--second", "--cmdline", "--base", "--kernel_offset",
      "--ramdisk_offset", "--second_offset", "--os_version", "--os_patch_level",
      "--tags_offset", "--board", "--pagesize", "--output">>

\* The flags writeMakeScript prints, in order.
ScriptFlags(h) ==
    <<"--kernel", "--ramdisk">>
    \o (IF h.second_size # U32Zero THEN <<"--second">> ELSE <<>>)
    \o <<"--cmdline", "--base", "--kernel_offset", "--ramdisk_offset",
         "--second_offset", "--os_version", "--os_patch_level", "--tags_offset",
         "--board", "--pagesize", "--output">>

\* writeMakeScript(destFile, dests, mkbootimgCmd, &header): the script, then
\* fchmod, whose failure is a warning.
WriteMakeScript ==
    /\ pc = "writeMakeScript"
    /\ \/ /\ files' = [files EXCEPT ![dest].data = ScriptFlags(header),
                                    ![dest].exec = TRUE]
          /\ UNCHANGED <<warned, stderr>>
       \/ /\ files' = [files EXCEPT ![dest].data = ScriptFlags(header)]
          /\ throwWarning("Failed to change file mode to 0750")
    /\ pc' = "fclose"
    /\ UNCHANGED <<constV, geomV, wsV, header, srcPos, dest, openLog, imageId,
                   fatal, exitStatus, srcOpen, openDests>>

\* A variant: the destination is left open.
CloseDestLeak ==
    /\ pc = "fclose"
    /\ dest' = dest + 1
    /\ pc' = "loop"
    /\ UNCHANGED <<constV, geomV, wsV, header, srcPos, files, openLog, warned,
                   imageId, fatal, exitStatus, stderr, srcOpen, openDests>>

\* fclose(destFile); and the loop's dest++.
CloseDest ==
    /\ pc = "fclose"
    /\ openDests' = openDests \ {dest}
    /\ dest' = dest + 1
    /\ pc' = "loop"
    /\ UNCHANGED <<constV, geomV, wsV, header, srcPos, files, openLog, warned,
                   imageId, fatal, exitStatus, stderr, srcOpen>>

\* fclose(srcFile); return EXIT_SUCCESS;
Cleanup ==
    /\ pc = "cleanup"
    /\ srcOpen' = FALSE
    /\ exitStatus' = "success"
    /\ pc' = "exited"
    /\ UNCHANGED <<constV, geomV, wsV, header, srcPos, dest, files, openLog, warned,
                   imageId, fatal, stderr, openDests>>

(***************************************************************************)
(* writeSlice(srcFile, destFile, blockSize, byteOffset, byteCount).        *)
(***************************************************************************)
\* buffer = calloc(1, blockSize), fatal when it yields NULL.
WsAlloc ==
    /\ pc = "ws_alloc"
    /\ \/ /\ buffer' = [k \in 1..blockSize |-> 0]
          /\ pc' = "ws_seek"
          /\ UNCHANGED <<ioFault, fatal, exitStatus, stderr, srcOpen, openDests>>
       \/ /\ ioFault' = TRUE
          /\ throwError("Failed to allocate buffer")
          /\ UNCHANGED buffer
    /\ UNCHANGED <<constV, geomV, header, srcPos, dest, files, openLog, warned, imageId,
                   blockSize, byteOffset, byteCount, i, destPos, seekFailed>>

\* fseek(srcFile, byteOffset, SEEK_SET); rewind(destFile);  The result of
\* fseek is not looked at: when it fails the position stays where it was.
WsSeek ==
    /\ pc = "ws_seek"
    /\ \/ /\ srcPos' = byteOffset
          /\ UNCHANGED <<seekFailed, ioFault>>
       \/ /\ seekFailed' = TRUE
          /\ ioFault' = TRUE
          /\ UNCHANGED srcPos
    /\ destPos' = 0
    /\ i' = 0
    /\ pc' = "ws_loop"
    /\ UNCHANGED <<constV, geomV, header, dest, files, openLog, warned, imageId,
                   blockSize, byteOffset, byteCount, buffer,
                   fatal, exitStatus, stderr, srcOpen, openDests>>

\* byteCount / blockSize + 1 (with blockSize = 0 and no trap: quotient 0).
LoopBound == IF blockSize = 0 THEN 1 ELSE (byteCount \div blockSize) + 1

\* A variant: every block is a whole block.
QuotaWholeBlock == blockSize

\* if((quota = byteCount - i * blockSize) < blockSize); else quota = blockSize;
Quota ==
    IF byteCount - i * blockSize < blockSize
    THEN byteCount - i * blockSize
    ELSE blockSize

\* The loop's test i < byteCount / blockSize + 1 and the quota of the block.
WsLoop ==
    /\ pc = "ws_loop"
    /\ \/ /\ blockSize = 0
          /\ Crash
       \/ /\ i < LoopBound /\ Quota # 0
          /\ pc' = "ws_read"
          /\ UNCHANGED <<fatal, exitStatus, stderr, srcOpen, openDests>>
       \/ /\ ~(i < LoopBound) \/ Quota = 0
          /\ pc' = "ws_free"
          /\ UNCHANGED <<fatal, exitStatus, stderr, srcOpen, openDests>>
    /\ UNCHANGED <<constV, geomV, wsV, header, srcPos, dest, files, openLog, warned,
                   imageId>>

\* fread(buffer, quota, 1, srcFile) < 1 is fatal.
WsRead ==
    /\ pc = "ws_read"
    /\ \/ /\ SrcLen - srcPos >= Quota
          /\ buffer' = ReadBytes(srcPos, Quota) \o SubSeq(buffer, Quota + 1, blockSize)
          /\ srcPos' = srcPos + Quota
          /\ pc' = "ws_write"
          /\ UNCHANGED <<ioFault, fatal, exitStatus, stderr, srcOpen, openDests>>
       \/ \* the end of the input comes before quota bytes
          /\ SrcLen - srcPos < Quota
          /\ srcPos' = (IF srcPos < SrcLen THEN SrcLen ELSE srcPos)
          /\ throwError("Unexpected end of input")
          /\ UNCHANGED <<buffer, ioFault>>
       \/ \* a read error
          /\ ioFault' = TRUE
          /\ throwError("Failed to read file")
          /\ UNCHANGED <<buffer, srcPos>>
    /\ UNCHANGED <<constV, geomV, header, dest, files, openLog, warned, imageId,
                   blockSize, byteOffset, byteCount, i, destPos, seekFailed>>

\* fwrite(buffer, quota, 1, destFile) < 1 is fatal; a failed write may have
\* put some of the block's bytes in the file.
WsWrite ==
    /\ pc = "ws_write"
    /\ \/ /\ files' = [files EXCEPT ![dest].data =
                          WriteAt(@, destPos, SubSeq(buffer, 1, Quota))]
          /\ destPos' = destPos + Quota
          /\ i' = i + 1
          /\ pc' = "ws_loop"
          /\ UNCHANGED <<ioFault, fatal, exitStatus, stderr, srcOpen, openDests>>
       \/ \E k \in 0..(Quota - 1) :
             /\ files' = [files EXCEPT ![dest].data =
                             WriteAt(@, destPos, SubSeq(buffer, 1, k))]
             /\ destPos' = destPos + k
             /\ ioFault' = TRUE
             /\ throwError("Failed to write to file")
             /\ UNCHANGED i
    /\ UNCHANGED <<constV, geomV, header, srcPos, dest, openLog, warned, imageId,
                   blockSize, byteOffset, byteCount, buffer, seekFailed>>

\* free(buffer); and the return to main.
WsFree ==
    /\ pc = "ws_free"
    /\ buffer' = <<>>
    /\ pc' = "fclose"
    /\ UNCHANGED <<constV, geomV, header, srcPos, dest, files, openLog, warned, imageId,
                   blockSize, byteOffset, byteCount, i, destPos, seekFailed, ioFault,
                   fatal, exitStatus, stderr, srcOpen, openDests>>

(***************************************************************************)
(* Bounds and the inputs drawn within them.                                *)
(***************************************************************************)
\* A run: the sizes a header declares, its page size, the bytes after the
\* header region.
MaxSize == 2
MaxPage == 2
MaxBody == 4
\* A copy on its own: the source's length, the block size, the offset, the count.
MaxSrcLen == 4
MaxBlock == 3
MaxOffset == 2
MaxCount == 4
\* The geometry on its own: how far the sizes go from 0 and from 2^32.
MaxGeom == 3

ZeroId == [k \in 0..(BOOT_ID_SIZE - 1) |-> 0]

\* "ANDROID!", "ANDROID?", "BNDROID!" and the empty string.
Magics ==
    {BOOT_MAGIC, [BOOT_MAGIC EXCEPT ![8] = 63], [BOOT_MAGIC EXCEPT ![1] = 66],
     [BOOT_MAGIC EXCEPT ![1] = 0]}

RunHeaders ==
    [magic : Magics,
     kernel_size : {FromNat(n) : n \in 0..MaxSize},
     ramdisk_size : {FromNat(n) : n \in 0..MaxSize},
     second_size : {FromNat(n) : n \in 0..MaxSize},
     page_size : {FromNat(n) : n \in 0..MaxPage},
     id : {ZeroId}]

\* The lengths of a source that ends inside the header region.
ShortLens == {0, MagicEnd, RamdiskSizeEnd, SecondSizeEnd, PageSizeEnd}

\* main's header before readHeader fills it (never read before that).
NoHeader ==
    [magic |-> [k \in 1..BOOT_MAGIC_SIZE |-> 0], kernel_size |-> U32Zero,
     ramdisk_size |-> U32Zero, second_size |-> U32Zero, page_size |-> U32Zero,
     id |-> ZeroId]

NoMap == [s \in 0..3 |-> U32Zero]

\* The state in which main starts, on a source file and a mode (-v, -i).
Init ==
    /\ pc = "openSrc"
    /\ verbose \in BOOLEAN /\ onlyPrintHeader \in BOOLEAN
    /\ ~(verbose /\ onlyPrintHeader)
    /\ fileHdr \in RunHeaders
    /\ \/ /\ srcHdrLen \in ShortLens
          /\ srcBody = <<>>
       \/ /\ srcHdrLen = HeaderSize
          /\ \E n \in 0..MaxBody : srcBody = [k \in 1..n |-> k]
    /\ srcOpen = FALSE /\ srcPos = 0
    /\ header = NoHeader
    /\ sizeMap = NoMap /\ offsetMap = NoMap
    /\ dest = 0
    /\ files = [d \in 0..3 |-> NoFile]
    /\ openDests = {} /\ openLog = <<>>
    /\ destPos = 0
    /\ blockSize = 0 /\ byteOffset = 0 /\ byteCount = 0 /\ i = 0 /\ buffer = <<>>
    /\ seekFailed = FALSE /\ ioFault = FALSE
    /\ fatal = FALSE /\ exitStatus = "running" /\ warned = FALSE /\ stderr = ""
    /\ imageId = <<>>

Next ==
    \/ OpenSrc \/ ChangeDir \/ ReadHeader \/ GetSizeMap \/ GetOffsetMap
    \/ WriteHeaderInfo \/ LoopDone \/ LoopSkip \/ LoopOpen \/ WriteMakeScript
    \/ CloseDest \/ Cleanup
    \/ WsAlloc \/ WsSeek \/ WsLoop \/ WsRead \/ WsWrite \/ WsFree

Spec == Init /\ [][Next]_vars

(***************************************************************************)
(* getSizeMap and getOffsetMap on their own, on accepted headers whose     *)
(* sizes reach up to 2^32 - 1.                                             *)
(***************************************************************************)
GeomSizes ==
    {FromNat(n) : n \in 1..MaxGeom}
    \cup {<<Half - 1, Half - n>> : n \in 1..MaxGeom}
    \cup {<<Half - 1, Half - 4096>>, FromNat(2047), FromNat(4096)}

GeomPages == {0, 1, 2, 3, 2048, 4096}

GeomHeaders ==
    [magic : {BOOT_MAGIC},
     kernel_size : GeomSizes,
     ramdisk_size : GeomSizes,
     second_size : GeomSizes \cup {U32Zero},
     page_size : {FromNat(n) : n \in GeomPages},
     id : {ZeroId}]

InitGeom ==
    /\ pc = "getSizeMap"
    /\ verbose = FALSE /\ onlyPrintHeader = FALSE
    /\ fileHdr \in GeomHeaders
    /\ header = fileHdr
    /\ srcHdrLen = HeaderSize /\ srcBody = <<>>
    /\ srcOpen = TRUE /\ srcPos = HeaderSize
    /\ sizeMap = NoMap /\ offsetMap = NoMap
    /\ dest = 0
    /\ files = [d \in 0..3 |-> NoFile]
    /\ openDests = {} /\ openLog = <<>>
    /\ destPos = 0
    /\ blockSize = 0 /\ byteOffset = 0 /\ byteCount = 0 /\ i = 0 /\ buffer = <<>>
    /\ seekFailed = FALSE /\ ioFault = FALSE
    /\ fatal = FALSE /\ exitStatus = "running" /\ warned = FALSE /\ stderr = ""
    /\ imageId = <<>>

NextGeom == GetSizeMap \/ GetOffsetMap

SpecGeom == InitGeom /\ [][NextGeom]_vars

(***************************************************************************)
(* writeSlice on its own: any source, block size, offset and count, on a   *)
(* destination that was just opened.                                       *)
(***************************************************************************)
CopyBytes == {7, 8}

CopySources == UNION {[1..n -> CopyBytes] : n \in 0..MaxSrcLen}

InitCopy ==
    /\ pc = "ws_alloc"
    /\ verbose = FALSE /\ onlyPrintHeader = FALSE
    /\ fileHdr = NoHeader /\ header = NoHeader
    /\ srcHdrLen = 0 /\ srcBody \in CopySources
    /\ srcOpen = TRUE /\ srcPos \in {0, Len(srcBody)}
    /\ sizeMap = NoMap /\ offsetMap = NoMap
    /\ dest = DEST_KERNEL
    /\ files = [d \in 0..3 |-> IF d = DEST_KERNEL THEN NewFile ELSE NoFile]
    /\ openDests = {DEST_KERNEL} /\ openLog = <<DEST_KERNEL>>
    /\ destPos = 0
    /\ blockSize \in 0..MaxBlock
    /\ byteOffset \in 0..MaxOffset
    /\ byteCount \in 0..MaxCount
    /\ i = 0 /\ buffer = <<>>
    /\ seekFailed = FALSE /\ ioFault = FALSE
    /\ fatal = FALSE /\ exitStatus = "running" /\ warned = FALSE /\ stderr = ""
    /\ imageId = <<>>

NextCopy == WsAlloc \/ WsSeek \/ WsLoop \/ WsRead \/ WsWrite \/ WsFree

SpecCopy == InitCopy /\ [][NextCopy]_vars

(***************************************************************************)
(* getImageId on its own (through writeHeaderInfo), on ids that differ     *)
(* from a fill byte in up to two places.                                   *)
(***************************************************************************)
IdBytes == {0, 10, 255}
IdPlaces == {0, 3, 4, 19, 20, 21, 31}

IdFamily ==
    {[k \in 0..(BOOT_ID_SIZE - 1) |->
         IF k = p1 THEN v1 ELSE IF k = p2 THEN v2 ELSE fill] :
       p1 \in IdPlaces, p2 \in IdPlaces, v1 \in IdBytes, v2 \in IdBytes,
       fill \in {0, 171}}

InitImageId ==
    /\ pc = "writeHeaderInfo"
    /\ verbose \in BOOLEAN /\ onlyPrintHeader \in BOOLEAN
    /\ ~(verbose /\ onlyPrintHeader)
    /\ \E id \in IdFamily :
          fileHdr = [magic |-> BOOT_MAGIC, kernel_size |-> FromNat(1),
                     ramdisk_size |-> FromNat(1), second_size |-> U32Zero,
                     page_size |-> FromNat(1), id |-> id]
    /\ header = fileHdr
    /\ srcHdrLen = HeaderSize /\ srcBody = <<>>
    /\ srcOpen = TRUE /\ srcPos = HeaderSize
    /\ sizeMap = getSizeMap(header) /\ offsetMap = getOffsetMap(header)
    /\ dest = 0
    /\ files = [d \in 0..3 |-> NoFile]
    /\ openDests = {} /\ openLog = <<>>
    /\ destPos = 0
    /\ blockSize = 0 /\ byteOffset = 0 /\ byteCount = 0 /\ i = 0 /\ buffer = <<>>
    /\ seekFailed = FALSE /\ ioFault = FALSE
    /\ fatal = FALSE /\ exitStatus = "running" /\ warned = FALSE /\ stderr = ""
    /\ imageId = <<>>

NextImageId == WriteHeaderInfo

SpecImageId == InitImageId /\ [][NextImageId]_vars

(***************************************************************************)
(* The claims.                                                             *)
(***************************************************************************)
\* readHeader has returned or has ended the run.
PastReadHeader == pc \notin {"openSrc", "changeDir", "readHeader"}

ValidationMessages ==
    {"Invalid magic number at start of header", "Invalid kernel_size",
     "Invalid ramdisk_size"}

\* C1: once readHeader has run, a header whose magic is not "ANDROID!", or
\* whose kernel_size is 0, or whose ramdisk_size is 0, has ended the run with
\* a fatal error before any geometry was computed or any destination opened;
\* any other header (second_size = 0 included) was not rejected by the
\* validation, and the run went on past readHeader.
C1_HeaderValidation ==
    PastReadHeader =>
        IF \/ header.magic # BOOT_MAGIC
           \/ header.kernel_size = U32Zero
           \/ header.ramdisk_size = U32Zero
        THEN /\ fatal /\ pc = "exited" /\ exitStatus = "failure"
             /\ sizeMap = NoMap /\ openLog = <<>>
        ELSE /\ stderr \notin ValidationMessages
             /\ pc = "exited" => sizeMap[SLICE_HEADER] = FromNat(HeaderSize)

\* A complete header with second_size = 0 was accepted and the run has
\* reached the kernel's extraction.
C1_Witness ==
    /\ pc = "ws_alloc" /\ dest = DEST_KERNEL
    /\ srcHdrLen = HeaderSize
    /\ header.second_size = U32Zero

\* C2: a source shorter than the header ends the run with a fatal error in
\* readHeader: the run never gets past readHeader with a partly read header.
\* (Stated on the short sources that hold the magic and both sizes, where no
\* field the validation looks at is left to the buffer's old contents.)
C2_ShortSourceRejected ==
    (RamdiskSizeEnd <= srcHdrLen /\ srcHdrLen < HeaderSize /\ PastReadHeader) =>
        (fatal /\ pc = "exited" /\ sizeMap = NoMap)

\* C3: getOffsetMap is never reached with page_size = 0.  (Stated on the
\* headers read whole from the source.)
C3_ZeroPageRejected ==
    ~(pc = "getOffsetMap" /\ srcHdrLen = HeaderSize /\ header.page_size = U32Zero)

\* C4: when writeSlice has ended, with blockSize > 0, a source of at least
\* byteOffset + byteCount bytes and no failed call, it has returned normally
\* and the destination holds exactly source[byteOffset, byteOffset + byteCount).
CopyPre ==
    /\ blockSize > 0
    /\ SrcLen >= byteOffset + byteCount
    /\ ~ioFault

C4_CopyExact ==
    (pc \in {"fclose", "exited"} /\ CopyPre) =>
        /\ pc = "fclose"
        /\ files[dest].data = SubSeq(srcBody, byteOffset + 1, byteOffset + byteCount)

\* A copy of several blocks and a shorter last one, from an offset, has returned.
C4_Witness ==
    /\ pc = "fclose" /\ CopyPre
    /\ byteOffset > 0
    /\ byteCount > blockSize /\ byteCount % blockSize # 0

\* C5: writeSlice never returns normally after a short read, a short write
\* or a failed seek.
C5_FailuresAreFatal == pc = "fclose" => ~ioFault

\* roundUpToPage(x, p) = floor((x + p - 1) / p) * p, as a 32-bit value.
RoundUpSpec(x, p) == U32Add(x, FromNat((p - U32Mod(x, p)) % p))

\* C6: with page_size > 0 the offsets are 0, then each the one before plus
\* the rounded-up size of the slice before, non-decreasing and page-aligned.
C6_Offsets ==
    (pc = "writeHeaderInfo" /\ header.page_size # U32Zero) =>
        LET p == ToSize(header.page_size)
        IN  /\ offsetMap[0] = U32Zero
            /\ \A s \in 0..2 :
                  /\ offsetMap[s + 1] = U32Add(offsetMap[s], RoundUpSpec(sizeMap[s], p))
                  /\ U32Leq(offsetMap[s], offsetMap[s + 1])
            /\ \A s \in 0..3 : U32Mod(offsetMap[s], p) = 0

\* C7: the destinations are opened in the order script, kernel, ramdisk,
\* second, an absent slice's never; the only destination open is the one
\* opened last (so each is closed before the next is opened, and at most one
\* is open); the source is open from readHeader to the cleanup and whenever
\* a destination is open.
C7_OpenDiscipline ==
    /\ \A a, b \in DOMAIN openLog : a < b => openLog[a] < openLog[b]
    /\ \A a \in DOMAIN openLog : sizeMap[openLog[a]] # U32Zero
    /\ Cardinality(openDests) <= 1
    /\ openDests # {} => openDests = {openLog[Len(openLog)]}
    /\ openDests # {} => srcOpen
    /\ pc \notin {"openSrc", "exited"} => srcOpen
    /\ (pc = "exited" /\ exitStatus = "success") => (~srcOpen /\ openDests = {})

\* A run has opened, and closed, all four destinations and ended.
C7_Witness ==
    /\ pc = "exited" /\ exitStatus = "success"
    /\ openLog = <<DEST_MKSCRIPT, DEST_KERNEL, DEST_RAMDISK, DEST_SECOND>>

SecondPresent == header.second_size # U32Zero

HasFlag(d, flag) == \E k \in DOMAIN files[d].data : files[d].data[k] = flag

\* C8: the second-stage file is only ever created, and writeSlice only ever
\* called for the second slice, when second_size > 0; a written script has
\* "--second" exactly when second_size > 0; and an extraction run (no -i)
\* that ends with success has produced the script, the kernel and the
\* ramdisk, and the second-stage file exactly when second_size > 0.
C8_SecondOptional ==
    /\ files[DEST_SECOND].exists => SecondPresent
    /\ (dest = DEST_SECOND /\ pc \in {"ws_alloc", "ws_seek", "ws_loop", "ws_read",
                                      "ws_write", "ws_free"}) => SecondPresent
    /\ files[DEST_MKSCRIPT].data # <<>> =>
          (HasFlag(DEST_MKSCRIPT, "--second") <=> SecondPresent)
    /\ (exitStatus = "success" /\ ~onlyPrintHeader) =>
          /\ files[DEST_MKSCRIPT].exists /\ files[DEST_MKSCRIPT].data # <<>>
          /\ files[DEST_KERNEL].exists
          /\ files[DEST_RAMDISK].exists
          /\ files[DEST_SECOND].exists <=> SecondPresent

\* An extraction run on a header with second_size = 0 has ended with success.
C8_Witness ==
    /\ exitStatus = "success" /\ ~onlyPrintHeader
    /\ ~SecondPresent
    /\ Len(files[DEST_RAMDISK].data) > 0

\* The two hex digits of byte b of id, and the separator after it in the
\* grouped form, by position.
HexChars == [n \in 0..15 |-> HexDigit[n + 1]]

HexAt(id, k) ==
    LET b == id[(k - 1) \div 2]
    IN  IF (k - 1) % 2 = 0 THEN HexChars[b \div 16] ELSE HexChars[b % 16]

\* The 40 hex digits of id[0..20), then the marker.
Sha1Form(id, marker) ==
    [k \in 1..(2 * SHA1_SIZE + Len(marker)) |->
        IF k <= 2 * SHA1_SIZE THEN HexAt(id, k) ELSE marker[k - 2 * SHA1_SIZE]]

\* All 32 bytes as pairs, ':' inside a group of 4, ' ' between groups,
\* nothing after the last byte.
GroupedForm(id) ==
    [k \in 1..(3 * BOOT_ID_SIZE - 1) |->
        LET b == (k - 1) \div 3
            r == (k - 1) % 3
        IN  IF r = 0 THEN HexChars[id[b] \div 16]
            ELSE IF r = 1 THEN HexChars[id[b] % 16]
            ELSE IF b % 4 = 3 THEN " " ELSE ":"]

TailIsZero(id) == \A k \in SHA1_SIZE..(BOOT_ID_SIZE - 1) : id[k] = 0

Printed == pc = "loop" /\ (verbose \/ onlyPrintHeader)

\* C9 (as amended): with id[20..32) all zero the output is the 40 lowercase
\* hex digits of id[0..20) followed by " (sha1)" and nothing else; otherwise
\* it is the grouped form of all 32 bytes.
C9_ImageId ==
    Printed =>
        imageId = IF TailIsZero(header.id)
                  THEN Sha1Form(header.id, <<" ", "(", "s", "h", "a", "1", ")">>)
                  ELSE GroupedForm(header.id)

\* C9 as stated: the marker is " sha1".
C9_Original ==
    Printed =>
        imageId = IF TailIsZero(header.id)
                  THEN Sha1Form(header.id, <<" ", "s", "h", "a", "1">>)
                  ELSE GroupedForm(header.id)

\* A digest with a nonzero byte was printed in the SHA-1 form.
C9_Witness ==
    /\ Printed
    /\ TailIsZero(header.id)
    /\ header.id[19] # 0
    /\ Len(imageId) > 2 * SHA1_SIZE

====
